---- MODULE Spec2Model ----
(***************************************************************************)
(* Model of redeo's Server (server.go): the command registry, the          *)
(* per-connection session worker (serveClient / perform) and the drain     *)
(* protocol (Release / deregister).                                        *)
(*                                                                         *)
(* Client (pipeline, readCmd, streamCmd, Close, release), ServerInfo       *)
(* (register, deregister, command, clients.All) and the resp codec are not *)
(* part of server.go; they are modelled from the specification text.       *)
(*                                                                         *)
(* srv.released is read and written without synchronisation.  The model    *)
(* interleaves every load and store of it as its own step, and lets the    *)
(* second load in deregister either reload the field or reuse the value    *)
(* of the first load.                                                      *)
(***************************************************************************)
EXTENDS Integers, Sequences, FiniteSets, TLC

\* ------------------------------------------------------------- bounds
\* connections accepted
MaxConns == 2
\* commands the peers send, over all connections
MaxCmds == 2
\* arguments of one command
MaxArgs == 1
\* calls of Release
MaxReleases == 1
\* calls of Handle / HandleStream
MaxRegs == 2

\* What the environment does in one run: how many connections it opens,
\* how many commands its peers send, how many handlers the application
\* registers and how often it calls Release.  A run is explored for each
\* of these workloads.
Workloads ==
    { \* a drain among connections that are waiting for input
      [conns |-> MaxConns, cmds |-> 0, regs |-> 0, rels |-> MaxReleases],
      \* one connection with pipelined commands
      [conns |-> 1, cmds |-> MaxCmds, regs |-> MaxRegs, rels |-> 0],
      \* a drain of a connection that is serving a command
      [conns |-> 1, cmds |-> MaxCmds - 1, regs |-> MaxRegs - 1, rels |-> MaxReleases] }

\* resp.MaxBufferSize, scaled down (the library's value is 64 KiB)
MaxBufferSize == 4

Conns == 1..MaxConns
Names == {"GET", "get", "foo"}
Kinds == {"unary", "stream"}
BigReply == (MaxBufferSize \div 2) + 1
ReplySizes == {1, BigReply}

VARIABLES
    load,       \* the workload of this run
    cmds,       \* srv.cmds: lower-cased name -> handler
    mu,         \* srv.mu: number of holders of the read lock
    nregs,      \* registrations made so far
    regs,       \* the calls of Handle / HandleStream made so far, in order
    clients,    \* srv.info.clients: connection id -> metadata record
    released,   \* srv.released: 0 is nil, n > 0 the barrier of the n-th Release
    wg,         \* counter of the barrier srv.released points to
    relPc,      \* position of the Release call
    infos,      \* Release's snapshot
    ri,         \* Release's loop index (1-based)
    nrel,       \* Release calls that returned
    panicked,   \* "none", or the run-time panic that ended the process
    nextID,     \* id of the next accepted connection
    pc,         \* position of each session worker
    closed,     \* Client.closed
    cnOpen,     \* the underlying connection has not been closed
    inbuf,      \* bytes received and not yet consumed by the reader, as tokens
    wr,         \* replies buffered in the writer
    out,        \* replies delivered to the transport
    hnd,        \* the handler perform has looked up
    held,       \* the barrier deregister saw in its nil check
    sent,       \* commands the peer has sent on each connection
    nreg,       \* calls of register made by each session
    ndereg,     \* calls of deregister made by each session
    last        \* what the dispatch that brought each session to its
                \* position did (NoLast once the next one starts); left:
                \* the arguments a streaming handler returned without reading

vars == << load, cmds, mu, nregs, regs, clients, released, wg, relPc, infos, ri, nrel,
           panicked, nextID, pc, closed, cnOpen, inbuf, wr, out, hnd, held,
           sent, nreg, ndereg, last >>

srvVars == << load, cmds, mu, nregs, regs >>
relVars == << released, wg, relPc, infos, ri, nrel >>

\* ------------------------------------------------------------- values
NoHandler == [kind |-> "none", id |-> 0]
\* the per-command counters of a record before any command
NoCalls == [n \in Names |-> 0]
NoRecord == [present |-> FALSE, cmd |-> "", calls |-> NoCalls]
NoLast == [kind |-> "none", name |-> "", k |-> 0, n |-> 0, err |-> "none", at |-> "none",
           reply |-> FALSE, flushes |-> 0, fok |-> FALSE, tok |-> FALSE,
           eager |-> FALSE, after |-> 0, an |-> 0, left |-> 0]

\* the start of the dispatch that follows outcome l: when l is an unknown
\* command whose arguments the transport let the reader skip, its number
\* and its argument count are kept
Following(l) ==
    IF l.kind = "unknown" /\ l.tok
    THEN [NoLast EXCEPT !.after = l.k, !.an = l.n]
    ELSE NoLast

\* strings.ToLower
ToLower(s) ==
    CASE s \in {"GET", "Get", "get"} -> "get"
      [] s \in {"FOO", "Foo", "foo"} -> "foo"
      [] s \in {"BAR", "bar"} -> "bar"
      [] OTHER -> s
LowerNames == { ToLower(s) : s \in Names }
\* names a lookup can be made under: the names in use in any case, and a
\* name that is never registered
Variants == Names \cup {"Get", "FOO", "Foo", "BAR", "bar"}

Hdr(name, n, k) == [t |-> "hdr", name |-> name, n |-> n, k |-> k]
Arg(k) == [t |-> "arg", name |-> "", n |-> 0, k |-> k]
Bad(k) == [t |-> "bad", name |-> "", n |-> 0, k |-> k]

RECURSIVE Args(_, _)
Args(n, k) == IF n = 0 THEN << >> ELSE << Arg(k) >> \o Args(n - 1, k)

\* the bytes of one well-formed command: its name and n arguments
Command(name, n, k) == << Hdr(name, n, k) >> \o Args(n, k)

RECURSIVE Drop(_, _)
Drop(s, n) == IF n = 0 \/ s = << >> THEN s ELSE Drop(Tail(s), n - 1)

\* replies
Reply(k, size) == [cmd |-> k, kind |-> "ok", name |-> "", size |-> size]
\* the length of the message that names the command: "foo" stands for
\* the names long enough for it to pass half the buffer size
UnknownSize(name) == IF ToLower(name) = "foo" THEN BigReply ELSE 1
\* UnknownCommand(name)
UnknownCommand(name, k) ==
    [cmd |-> k, kind |-> "unknown", name |-> name, size |-> UnknownSize(name)]
\* "ERR " + err.Error()
ErrReply(k) == [cmd |-> k, kind |-> "err", name |-> "", size |-> 1]

RECURSIVE Buffered(_)
Buffered(w) == IF w = << >> THEN 0 ELSE Head(w).size + Buffered(Tail(w))

\* Writer.Flush: nothing to write always succeeds
Flush(w, o, ok) ==
    IF w = << >> \/ ok
    THEN [wr |-> << >>, out |-> o \o w, ok |-> TRUE]
    ELSE [wr |-> w, out |-> o, ok |-> FALSE]


\* outcomes a read or a write on connection c can have: a closed
\* connection fails every transfer, an open one may succeed or fail
IoOk(c) == IF cnOpen[c] THEN BOOLEAN ELSE {FALSE}

Init ==
    /\ load \in Workloads
    /\ cmds = [n \in LowerNames |-> NoHandler]
    /\ mu = 0
    /\ nregs = 0
    /\ regs = << >>
    /\ clients = [c \in Conns |-> NoRecord]
    /\ released = 0
    /\ wg = 0
    /\ relPc = "idle"
    /\ infos = << >>
    /\ ri = 1
    /\ nrel = 0
    /\ panicked = "none"
    /\ nextID = 1
    /\ pc = [c \in Conns |-> "none"]
    /\ closed = [c \in Conns |-> FALSE]
    /\ cnOpen = [c \in Conns |-> FALSE]
    /\ inbuf = [c \in Conns |-> << >>]
    /\ wr = [c \in Conns |-> << >>]
    /\ out = [c \in Conns |-> << >>]
    /\ hnd = [c \in Conns |-> NoHandler]
    /\ held = [c \in Conns |-> 0]
    /\ sent = [c \in Conns |-> 0]
    /\ nreg = [c \in Conns |-> 0]
    /\ ndereg = [c \in Conns |-> 0]
    /\ last = [c \in Conns |-> NoLast]

Running == panicked = "none"

\* ------------------------------------------------- command registry
\* a registration under the name as given
RegisterVerbatim(name, kind) ==
    IF name \in DOMAIN cmds
    THEN [cmds EXCEPT ![name] = [kind |-> kind, id |-> nregs + 1]]
    ELSE cmds

\* srv.cmds[strings.ToLower(name)] = h under srv.mu.Lock()
Register(name, kind) ==
    [cmds EXCEPT ![ToLower(name)] = [kind |-> kind, id |-> nregs + 1]]

\* h, ok := srv.cmds[norm]: NoHandler when the map has no entry
Lookup(name) ==
    IF ToLower(name) \in DOMAIN cmds THEN cmds[ToLower(name)] ELSE NoHandler

\* the handlers that have called Handle or HandleStream and wait for
\* srv.mu.Lock()
Pending == Cardinality({ c \in Conns : pc[c] = "hreg" })

Handle ==
    /\ Running
    /\ nregs + Pending < load.regs
    /\ mu = 0
    /\ \E name \in Names :
          /\ cmds' = Register(name, "unary")
          /\ regs' = Append(regs, [name |-> name, kind |-> "unary"])
    /\ nregs' = nregs + 1
    /\ UNCHANGED << load, mu, clients, relVars, panicked, nextID, pc, closed, cnOpen,
                    inbuf, wr, out, hnd, held, sent, nreg, ndereg, last >>

HandleStream ==
    /\ Running
    /\ nregs + Pending < load.regs
    /\ mu = 0
    /\ \E name \in Names :
          /\ cmds' = Register(name, "stream")
          /\ regs' = Append(regs, [name |-> name, kind |-> "stream"])
    /\ nregs' = nregs + 1
    /\ UNCHANGED << load, mu, clients, relVars, panicked, nextID, pc, closed, cnOpen,
                    inbuf, wr, out, hnd, held, sent, nreg, ndereg, last >>

\* ------------------------------------------------------- the peers
RECURSIVE SentUpTo(_)
SentUpTo(c) == IF c = 0 THEN 0 ELSE sent[c] + SentUpTo(c - 1)
TotalSent == SentUpTo(MaxConns)

\* what a peer can send as its k-th command: a well-formed command, or a
\* line that is no command
Shapes(k) ==
    { Command(name, n, k) : name \in Names, n \in 0..MaxArgs } \cup { << Bad(k) >> }

\* the byte streams of m pipelined commands, numbered from k + 1
RECURSIVE Pipelines(_, _)
Pipelines(k, m) ==
    IF m = 0 THEN { << >> }
    ELSE { first \o rest : first \in Shapes(k + 1), rest \in Pipelines(k + 1, m - 1) }

\* a peer writes one or more pipelined commands at once.  Input that
\* arrives while earlier input is unread is covered by a larger write.
PeerSend(c) ==
    /\ Running
    /\ cnOpen[c]
    /\ inbuf[c] = << >>
    /\ \E m \in 1..(load.cmds - TotalSent) :
          /\ \E bytes \in Pipelines(sent[c], m) :
                inbuf' = [inbuf EXCEPT ![c] = bytes]
          /\ sent' = [sent EXCEPT ![c] = @ + m]
    /\ UNCHANGED << srvVars, clients, relVars, panicked, nextID, pc, closed, cnOpen,
                    wr, out, hnd, held, nreg, ndereg, last >>

\* ------------------------------------------------- the accept loop
\* Serve: lis.Accept(), newClient(cn), go srv.serveClient(...)
Accept(c) ==
    /\ Running
    /\ c = nextID
    /\ c <= load.conns
    /\ pc[c] = "none"
    /\ nextID' = nextID + 1
    /\ pc' = [pc EXCEPT ![c] = "start"]
    /\ cnOpen' = [cnOpen EXCEPT ![c] = TRUE]
    /\ UNCHANGED << srvVars, clients, relVars, panicked, closed, inbuf, wr, out,
                    hnd, held, sent, nreg, ndereg, last >>

\* ------------------------------------------------ the session worker
\* srv.register(c): srv.info.register(c)
InfoRegister(c) ==
    [clients EXCEPT ![c] = [present |-> TRUE, cmd |-> "", calls |-> NoCalls]]
\* srv.info.deregister(clientID)
InfoDeregister(c) == [clients EXCEPT ![c] = NoRecord]
\* srv.info.command(c.id, norm): nothing to record for an id that is not registered
InfoCommand(c, norm) ==
    IF clients[c].present
    THEN [clients EXCEPT ![c] = [present |-> TRUE, cmd |-> norm,
                                 calls |-> [@.calls EXCEPT ![norm] = @ + 1]]]
    ELSE clients

\* serveClient up to the loop: defer c.release(); srv.register(c);
\* defer srv.deregister(c.id)
Start(c) ==
    /\ Running
    /\ pc[c] = "start"
    /\ clients' = InfoRegister(c)
    /\ nreg' = [nreg EXCEPT ![c] = @ + 1]
    /\ pc' = [pc EXCEPT ![c] = "loop"]
    /\ UNCHANGED << srvVars, relVars, panicked, nextID, closed, cnOpen, inbuf, wr,
                    out, hnd, held, sent, ndereg, last >>

\* a return that leaves the loop without the deferred deregister
LoopExitSkipsDeregister == "release"

\* a return that leaves the loop without any of the deferred calls
LoopExitSkipsRelease == "finished"

\* where the worker goes when the loop is left: the deferred calls.
\* Every way out of the loop runs srv.deregister first, then c.release.
LoopExitPc == "dereg"

\* every error ends the session
IsFatalAlways(e) == TRUE

\* no error ends the session
IsFatalNever(e) == FALSE

\* !resp.IsProtocolError(err)
IsFatal(e) == e # "protocol"

\* for !c.closed: the flag is set, the loop ends
LoopClosed(c) ==
    /\ Running
    /\ pc[c] = "loop"
    /\ closed[c]
    /\ pc' = [pc EXCEPT ![c] = LoopExitPc]
    /\ last' = [last EXCEPT ![c] = NoLast]
    /\ UNCHANGED << srvVars, clients, relVars, panicked, nextID, closed, cnOpen,
                    inbuf, wr, out, hnd, held, sent, nreg, ndereg >>

\* a serveClient that writes no error reply for an error that ends the
\* session
AfterPipelineSilent(c, w, o, e, k, fok, l) ==
    LET fatal == e # "none" /\ IsFatal(e)
        w1 == IF e # "none" /\ ~fatal THEN Append(w, ErrReply(k)) ELSE w
        f == Flush(w1, o, fok)
        stop == fatal \/ ~f.ok
    IN /\ wr' = [wr EXCEPT ![c] = f.wr]
       /\ out' = [out EXCEPT ![c] = f.out]
       /\ pc' = [pc EXCEPT ![c] = IF stop THEN LoopExitPc ELSE "loop"]
       /\ last' = [last EXCEPT ![c] =
                     [l EXCEPT !.err = e, !.reply = (e # "none"),
                               !.flushes = 1, !.fok = f.ok]]

\* a serveClient that goes on after a flush that failed
AfterPipelineIgnoresFlushError(c, w, o, e, k, fok, l) ==
    LET w1 == IF e # "none" THEN Append(w, ErrReply(k)) ELSE w
        f == Flush(w1, o, fok)
        stop == e # "none" /\ IsFatal(e)
    IN /\ wr' = [wr EXCEPT ![c] = f.wr]
       /\ out' = [out EXCEPT ![c] = f.out]
       /\ pc' = [pc EXCEPT ![c] = IF stop THEN LoopExitPc ELSE "loop"]
       /\ last' = [last EXCEPT ![c] =
                     [l EXCEPT !.err = e, !.reply = (e # "none"),
                               !.flushes = 1, !.fok = f.ok]]

\* serveClient after c.pipeline(perform) returned e for command k, with w
\* buffered and o delivered: the error reply, the flush, the return
AfterPipeline(c, w, o, e, k, fok, l) ==
    LET w1 == IF e # "none" THEN Append(w, ErrReply(k)) ELSE w
        f == Flush(w1, o, fok)
        stop == (e # "none" /\ IsFatal(e)) \/ ~f.ok
    IN /\ wr' = [wr EXCEPT ![c] = f.wr]
       /\ out' = [out EXCEPT ![c] = f.out]
       /\ pc' = [pc EXCEPT ![c] = IF stop THEN LoopExitPc ELSE "loop"]
       /\ last' = [last EXCEPT ![c] =
                     [l EXCEPT !.err = e, !.reply = (e # "none"),
                               !.flushes = 1, !.fok = f.ok]]

\* the pipeline goes on to the next command without returning to
\* serveClient: nothing is flushed here
NextInPipeline(c, w, o, l) ==
    /\ wr' = [wr EXCEPT ![c] = w]
    /\ out' = [out EXCEPT ![c] = o]
    /\ pc' = [pc EXCEPT ![c] = "pipe"]
    /\ last' = [last EXCEPT ![c] = l]

\* perform returned e (nil: "none") to the pipeline, which goes on while
\* the reader holds more input and otherwise returns to serveClient
Performed(c, ib, w, o, e, k, fok, more, l) ==
    /\ inbuf' = [inbuf EXCEPT ![c] = ib]
    /\ IF e = "none" /\ more /\ ib # << >>
       THEN NextInPipeline(c, w, o, l)
       ELSE AfterPipeline(c, w, o, e, k, fok, l)

AtRead(c) == pc[c] = "pipe" \/ (pc[c] = "loop" /\ ~closed[c])

\* PeekCmd fails with an I/O or timeout error
PeekFail(c) ==
    /\ Running
    /\ AtRead(c)
    /\ \E fok \in IoOk(c) :
          AfterPipeline(c, wr[c], out[c], "io", 0, fok,
                        [Following(last[c]) EXCEPT !.kind = "peek", !.at = "read"])
    /\ UNCHANGED << srvVars, clients, relVars, panicked, nextID, closed, cnOpen,
                    inbuf, hnd, held, sent, nreg, ndereg >>

\* PeekCmd meets input that is no command: a protocol error; the
\* pipeline skips it and returns the error
PeekProtocol(c) ==
    /\ Running
    /\ AtRead(c)
    /\ cnOpen[c]
    /\ inbuf[c] # << >>
    /\ Head(inbuf[c]).t # "hdr"
    /\ inbuf' = [inbuf EXCEPT ![c] = Tail(@)]
    /\ \E fok \in IoOk(c) :
          AfterPipeline(c, wr[c], out[c], "protocol", Head(inbuf[c]).k, fok,
                        [Following(last[c]) EXCEPT !.kind = "peek",
                                                   !.k = Head(inbuf[c]).k,
                                                   !.at = "read"])
    /\ UNCHANGED << srvVars, clients, relVars, panicked, nextID, closed, cnOpen,
                    hnd, held, sent, nreg, ndereg >>

\* PeekCmd yields a name; perform(c, name) takes the read lock
PeekCmd(c) ==
    /\ Running
    /\ AtRead(c)
    /\ cnOpen[c]
    /\ inbuf[c] # << >>
    /\ Head(inbuf[c]).t = "hdr"
    /\ mu' = mu + 1
    /\ pc' = [pc EXCEPT ![c] = "locked"]
    /\ last' = [last EXCEPT ![c] = Following(@)]
    /\ UNCHANGED << load, cmds, nregs, regs, clients, relVars, panicked, nextID, closed,
                    cnOpen, inbuf, wr, out, hnd, held, sent, nreg, ndereg >>

\* the codec's reader, on input ib that starts with a command's name.
\* Reading or skipping arguments that are there needs the transport only
\* when there are arguments; a failed transfer consumes the name alone.
\* c.readCmd / c.rd.SkipCmd: the name and all its arguments
ReadCmd(ib, ok) ==
    IF ok
    THEN [inbuf |-> Drop(Tail(ib), Head(ib).n), err |-> "none"]
    ELSE [inbuf |-> ib, err |-> "io"]

SkipCmd(ib, ok) ==
    IF ok \/ Head(ib).n = 0
    THEN [inbuf |-> Drop(Tail(ib), Head(ib).n), err |-> "none"]
    ELSE [inbuf |-> Tail(ib), err |-> "io"]

\* c.streamCmd: the name; the arguments stay in the stream
StreamCmd(ib, ok) ==
    IF ok
    THEN [inbuf |-> Tail(ib), err |-> "none"]
    ELSE [inbuf |-> ib, err |-> "io"]

\* c.scmd.Discard() with n arguments still unread
Discard(ib, n, ok) ==
    IF ok \/ n = 0
    THEN [inbuf |-> Drop(ib, n), err |-> "none"]
    ELSE [inbuf |-> ib, err |-> "io"]

\* a perform that leaves the unknown command in the stream
PerformUnknownNoSkip(c, h, sok) ==
    [inbuf |-> inbuf[c],
     wr |-> Append(wr[c], UnknownCommand(h.name, h.k)),
     out |-> out[c],
     err |-> "none",
     eager |-> FALSE]

\* a perform that sends the unknown-command reply past the writer's
\* buffer
PerformUnknownDirect(c, h, sok) ==
    LET s == SkipCmd(inbuf[c], sok)
    IN [inbuf |-> s.inbuf,
        wr |-> wr[c],
        out |-> Append(out[c], UnknownCommand(h.name, h.k)),
        err |-> "none",
        eager |-> FALSE]

\* perform, no handler registered: the error reply, the skip (its error
\* dropped), return nil
PerformUnknown(c, h, sok) ==
    LET s == SkipCmd(inbuf[c], sok)
    IN [inbuf |-> s.inbuf,
        wr |-> Append(wr[c], UnknownCommand(h.name, h.k)),
        out |-> out[c],
        err |-> "none",
        eager |-> FALSE]

\* a perform that flushes only when the buffer has passed its full size
EagerFlushAtFull(w, o, eok) ==
    IF Buffered(w) > MaxBufferSize
    THEN LET f == Flush(w, o, eok)
         IN [wr |-> f.wr, out |-> f.out, err |-> IF f.ok THEN "none" ELSE "io",
             eager |-> TRUE]
    ELSE [wr |-> w, out |-> o, err |-> "none", eager |-> FALSE]

\* perform's tail: flush when the buffer is large enough
EagerFlush(w, o, eok) ==
    IF Buffered(w) > MaxBufferSize \div 2
    THEN LET f == Flush(w, o, eok)
         IN [wr |-> f.wr, out |-> f.out, err |-> IF f.ok THEN "none" ELSE "io",
             eager |-> TRUE]
    ELSE [wr |-> w, out |-> o, err |-> "none", eager |-> FALSE]

\* perform, case Handler: readCmd, ServeRedeo (which writes one reply of
\* the given size), the eager flush
PerformUnary(c, h, rok, size, eok) ==
    LET r == ReadCmd(inbuf[c], rok)
        f == EagerFlush(Append(wr[c], Reply(h.k, size)), out[c], eok)
    IN IF r.err # "none"
       THEN [inbuf |-> r.inbuf, wr |-> wr[c], out |-> out[c], err |-> r.err,
             eager |-> FALSE]
       ELSE [inbuf |-> r.inbuf, wr |-> f.wr, out |-> f.out, err |-> f.err,
             eager |-> f.eager]

\* a perform without the deferred Discard
PerformStreamNoDiscard(c, h, rok, j, size, eok, dok) ==
    LET s == StreamCmd(inbuf[c], rok)
        f == EagerFlush(Append(wr[c], Reply(h.k, size)), out[c], eok)
    IN IF s.err # "none"
       THEN [inbuf |-> s.inbuf, wr |-> wr[c], out |-> out[c], err |-> s.err,
             eager |-> FALSE]
       ELSE [inbuf |-> Drop(s.inbuf, j), wr |-> f.wr, out |-> f.out, err |-> f.err,
             eager |-> f.eager]

\* perform, case StreamHandler: streamCmd, defer Discard, ServeRedeoStream
\* (which reads j arguments and writes one reply), the eager flush, and
\* on return the deferred Discard, whose error is dropped
PerformStream(c, h, rok, j, size, eok, dok) ==
    LET s == StreamCmd(inbuf[c], rok)
        f == EagerFlush(Append(wr[c], Reply(h.k, size)), out[c], eok)
        d == Discard(Drop(s.inbuf, j), h.n - j, dok)
    IN IF s.err # "none"
       THEN [inbuf |-> s.inbuf, wr |-> wr[c], out |-> out[c], err |-> s.err,
             eager |-> FALSE]
       ELSE [inbuf |-> d.inbuf, wr |-> f.wr, out |-> f.out, err |-> f.err,
             eager |-> f.eager]

\* what a dispatch of command h did, for the properties; tok: the
\* transport served every read the dispatch made
Outcome(l, kind, h, r, tok) ==
    [l EXCEPT !.kind = kind, !.name = h.name, !.k = h.k, !.n = h.n,
                   !.at = IF r.err = "none" THEN "none"
                          ELSE IF r.eager THEN "flush" ELSE "read",
                   !.tok = tok, !.eager = r.eager]

\* perform: the lookup under the read lock finds no handler
Unknown(c) ==
    /\ Running
    /\ pc[c] = "locked"
    /\ Lookup(Head(inbuf[c]).name).kind = "none"
    /\ mu' = mu - 1
    /\ \E sok \in IoOk(c), fok \in IoOk(c), more \in BOOLEAN :
          LET h == Head(inbuf[c])
              r == PerformUnknown(c, h, sok)
          IN Performed(c, r.inbuf, r.wr, r.out, r.err, h.k, fok, more,
                       Outcome(last[c], "unknown", h, r, sok \/ h.n = 0))
    /\ UNCHANGED << load, cmds, nregs, regs, clients, relVars, panicked, nextID, closed, cnOpen,
                    hnd, held, sent, nreg, ndereg >>

\* a perform that keeps the read lock when it goes on to the handler
FoundKeepsLock(c) ==
    /\ Running
    /\ pc[c] = "locked"
    /\ Lookup(Head(inbuf[c]).name).kind # "none"
    /\ mu' = mu
    /\ hnd' = [hnd EXCEPT ![c] = Lookup(Head(inbuf[c]).name)]
    /\ clients' = InfoCommand(c, ToLower(Head(inbuf[c]).name))
    /\ pc' = [pc EXCEPT ![c] = "handler"]
    /\ UNCHANGED << load, cmds, nregs, regs, relVars, panicked, nextID, closed, cnOpen, inbuf,
                    wr, out, held, sent, nreg, ndereg, last >>

\* a perform that records the name as the peer sent it
FoundRecordsVerbatim(c) ==
    /\ Running
    /\ pc[c] = "locked"
    /\ Lookup(Head(inbuf[c]).name).kind # "none"
    /\ mu' = mu - 1
    /\ hnd' = [hnd EXCEPT ![c] = Lookup(Head(inbuf[c]).name)]
    /\ clients' = InfoCommand(c, Head(inbuf[c]).name)
    /\ pc' = [pc EXCEPT ![c] = "handler"]
    /\ UNCHANGED << load, cmds, nregs, regs, relVars, panicked, nextID, closed, cnOpen, inbuf,
                    wr, out, held, sent, nreg, ndereg, last >>

\* perform: the lookup finds a handler; srv.info.command(c.id, norm)
Found(c) ==
    /\ Running
    /\ pc[c] = "locked"
    /\ Lookup(Head(inbuf[c]).name).kind # "none"
    /\ mu' = mu - 1
    /\ hnd' = [hnd EXCEPT ![c] = Lookup(Head(inbuf[c]).name)]
    /\ clients' = InfoCommand(c, ToLower(Head(inbuf[c]).name))
    /\ pc' = [pc EXCEPT ![c] = "handler"]
    /\ UNCHANGED << load, cmds, nregs, regs, relVars, panicked, nextID, closed, cnOpen, inbuf,
                    wr, out, held, sent, nreg, ndereg, last >>

\* the handler running for session c calls srv.Handle or
\* srv.HandleStream, which asks for srv.mu.Lock()
HandlerCallsHandle(c) ==
    /\ Running
    /\ pc[c] = "handler"
    /\ nregs + Pending < load.regs
    /\ pc' = [pc EXCEPT ![c] = "hreg"]
    /\ UNCHANGED << srvVars, clients, relVars, panicked, nextID, closed, cnOpen,
                    inbuf, wr, out, hnd, held, sent, nreg, ndereg, last >>

\* the handler's call gets the lock, registers and returns to the handler
HandlerRegisters(c) ==
    /\ Running
    /\ pc[c] = "hreg"
    /\ mu = 0
    /\ \E name \in Names, kind \in Kinds :
          /\ cmds' = Register(name, kind)
          /\ regs' = Append(regs, [name |-> name, kind |-> kind])
    /\ nregs' = nregs + 1
    /\ pc' = [pc EXCEPT ![c] = "handler"]
    /\ UNCHANGED << load, mu, clients, relVars, panicked, nextID, closed, cnOpen,
                    inbuf, wr, out, hnd, held, sent, nreg, ndereg, last >>

ServeUnary(c) ==
    /\ Running
    /\ pc[c] = "handler"
    /\ hnd[c].kind = "unary"
    /\ hnd' = [hnd EXCEPT ![c] = NoHandler]
    /\ \E rok \in IoOk(c), eok \in IoOk(c), fok \in IoOk(c), more \in BOOLEAN,
          size \in ReplySizes :
          LET h == Head(inbuf[c])
              r == PerformUnary(c, h, rok, size, eok)
          IN Performed(c, r.inbuf, r.wr, r.out, r.err, h.k, fok, more,
                       Outcome(last[c], "unary", h, r, rok))
    /\ UNCHANGED << srvVars, clients, relVars, panicked, nextID, closed, cnOpen,
                    held, sent, nreg, ndereg >>

ServeStream(c) ==
    /\ Running
    /\ pc[c] = "handler"
    /\ hnd[c].kind = "stream"
    /\ hnd' = [hnd EXCEPT ![c] = NoHandler]
    /\ \E rok \in IoOk(c), eok \in IoOk(c), dok \in IoOk(c), fok \in IoOk(c),
          more \in BOOLEAN, size \in ReplySizes, j \in 0..Head(inbuf[c]).n :
          LET h == Head(inbuf[c])
              r == PerformStream(c, h, rok, j, size, eok, dok)
          IN Performed(c, r.inbuf, r.wr, r.out, r.err, h.k, fok, more,
                       [Outcome(last[c], "stream", h, r, rok /\ (dok \/ j = h.n))
                           EXCEPT !.left = IF rok THEN h.n - j ELSE 0])
    /\ UNCHANGED << srvVars, clients, relVars, panicked, nextID, closed, cnOpen,
                    held, sent, nreg, ndereg >>

\* a deregister that leaves the record in the registry
DeregisterKeepsRecord(c) ==
    /\ Running
    /\ pc[c] = "dereg"
    /\ ndereg' = [ndereg EXCEPT ![c] = @ + 1]
    /\ pc' = [pc EXCEPT ![c] = "check"]
    /\ UNCHANGED << srvVars, clients, relVars, panicked, nextID, closed, cnOpen,
                    inbuf, wr, out, hnd, held, sent, nreg, last >>

\* the deferred srv.deregister(c.id), first statement
Deregister(c) ==
    /\ Running
    /\ pc[c] = "dereg"
    /\ clients' = InfoDeregister(c)
    /\ ndereg' = [ndereg EXCEPT ![c] = @ + 1]
    /\ pc' = [pc EXCEPT ![c] = "check"]
    /\ UNCHANGED << srvVars, relVars, panicked, nextID, closed, cnOpen, inbuf, wr,
                    out, hnd, held, sent, nreg, last >>

\* if srv.released != nil
CheckReleased(c) ==
    /\ Running
    /\ pc[c] = "check"
    /\ held' = [held EXCEPT ![c] = released]
    /\ pc' = [pc EXCEPT ![c] = IF released # 0 THEN "signal" ELSE "release"]
    /\ UNCHANGED << srvVars, clients, relVars, panicked, nextID, closed, cnOpen,
                    inbuf, wr, out, hnd, sent, nreg, ndereg, last >>

\* WaitGroup.Done on barrier b: nil is a nil dereference; a barrier that
\* is no longer srv.released has been waited out, so its counter is 0
Done(b) ==
    IF b = 0 THEN [panic |-> "nil", wg |-> wg]
    ELSE IF b # released \/ wg = 0 THEN [panic |-> "negative", wg |-> wg]
    ELSE [panic |-> "none", wg |-> wg - 1]

\* srv.released.Done(): the field is loaded again, or the value the nil
\* check loaded is used
Signal(c) ==
    /\ Running
    /\ pc[c] = "signal"
    /\ \E b \in {released, held[c]} :
          /\ wg' = Done(b).wg
          /\ panicked' = Done(b).panic
    /\ pc' = [pc EXCEPT ![c] = "release"]
    /\ UNCHANGED << srvVars, clients, released, relPc, infos, ri, nrel, nextID,
                    closed, cnOpen, inbuf, wr, out, hnd, held, sent, nreg, ndereg,
                    last >>

\* the deferred c.release(): the connection is closed and the session's
\* reader and writer are given up; the transport is gone with it
ClientRelease(c) ==
    /\ Running
    /\ pc[c] = "release"
    /\ cnOpen' = [cnOpen EXCEPT ![c] = FALSE]
    /\ pc' = [pc EXCEPT ![c] = "finished"]
    /\ inbuf' = [inbuf EXCEPT ![c] = << >>]
    /\ wr' = [wr EXCEPT ![c] = << >>]
    /\ out' = [out EXCEPT ![c] = << >>]
    /\ held' = [held EXCEPT ![c] = 0]
    /\ last' = [last EXCEPT ![c] = NoLast]
    /\ UNCHANGED << srvVars, clients, relVars, panicked, nextID, closed, hnd, sent,
                    nreg, ndereg >>

\* ------------------------------------------------------- the drain
\* srv.info.clients.All(): the records present, here in id order
RECURSIVE AllFrom(_)
AllFrom(c) ==
    IF c > MaxConns THEN << >>
    ELSE (IF clients[c].present THEN << [id |-> c, Client |-> TRUE] >> ELSE << >>)
         \o AllFrom(c + 1)
All == AllFrom(1)

\* Release: infos := srv.info.clients.All()
ReleaseSnapshot ==
    /\ Running
    /\ relPc = "idle"
    /\ nrel < load.rels
    /\ infos' = All
    /\ relPc' = "install"
    /\ UNCHANGED << srvVars, clients, released, wg, ri, nrel, panicked, nextID, pc,
                    closed, cnOpen, inbuf, wr, out, hnd, held, sent, nreg, ndereg,
                    last >>

\* srv.released = &sync.WaitGroup{}
ReleaseInstall ==
    /\ Running
    /\ relPc = "install"
    /\ released' = nrel + 1
    /\ wg' = 0
    /\ ri' = 1
    /\ relPc' = IF infos = << >> THEN "wait" ELSE "add"
    /\ UNCHANGED << srvVars, clients, infos, nrel, panicked, nextID, pc, closed,
                    cnOpen, inbuf, wr, out, hnd, held, sent, nreg, ndereg, last >>

\* srv.released.Add(1)
ReleaseAdd ==
    /\ Running
    /\ relPc = "add"
    /\ wg' = wg + 1
    /\ relPc' = "close"
    /\ UNCHANGED << srvVars, clients, released, infos, ri, nrel, panicked, nextID,
                    pc, closed, cnOpen, inbuf, wr, out, hnd, held, sent, nreg,
                    ndereg, last >>

\* Client.Close(): the closed flag is set and the connection is closed
ClientClose(c) ==
    /\ closed' = [closed EXCEPT ![c] = TRUE]
    /\ cnOpen' = [cnOpen EXCEPT ![c] = FALSE]

\* infos[i].Client.Close(); infos[i].Client = nil; i++
ReleaseClose ==
    /\ Running
    /\ relPc = "close"
    /\ ClientClose(infos[ri].id)
    /\ infos' = [infos EXCEPT ![ri].Client = FALSE]
    /\ ri' = ri + 1
    /\ relPc' = IF ri = Len(infos) THEN "wait" ELSE "add"
    /\ UNCHANGED << srvVars, clients, released, wg, nrel, panicked, nextID, pc,
                    inbuf, wr, out, hnd, held, sent, nreg, ndereg, last >>

\* srv.released.Wait() returns
ReleaseWait ==
    /\ Running
    /\ relPc = "wait"
    /\ wg = 0
    /\ relPc' = "clear"
    /\ UNCHANGED << srvVars, clients, released, wg, infos, ri, nrel, panicked,
                    nextID, pc, closed, cnOpen, inbuf, wr, out, hnd, held, sent,
                    nreg, ndereg, last >>

\* srv.released = nil; Release returns
ReleaseClear ==
    /\ Running
    /\ relPc = "clear"
    /\ released' = 0
    /\ nrel' = nrel + 1
    /\ relPc' = "idle"
    /\ UNCHANGED << srvVars, clients, wg, infos, ri, panicked, nextID, pc, closed,
                    cnOpen, inbuf, wr, out, hnd, held, sent, nreg, ndereg, last >>

Next ==
    \/ Handle
    \/ HandleStream
    \/ \E c \in Conns : PeerSend(c)
    \/ \E c \in Conns : Accept(c)
    \/ \E c \in Conns : Start(c)
    \/ \E c \in Conns : LoopClosed(c)
    \/ \E c \in Conns : PeekFail(c)
    \/ \E c \in Conns : PeekProtocol(c)
    \/ \E c \in Conns : PeekCmd(c)
    \/ \E c \in Conns : Unknown(c)
    \/ \E c \in Conns : Found(c)
    \/ \E c \in Conns : HandlerCallsHandle(c)
    \/ \E c \in Conns : HandlerRegisters(c)
    \/ \E c \in Conns : ServeUnary(c)
    \/ \E c \in Conns : ServeStream(c)
    \/ \E c \in Conns : Deregister(c)
    \/ \E c \in Conns : CheckReleased(c)
    \/ \E c \in Conns : Signal(c)
    \/ \E c \in Conns : ClientRelease(c)
    \/ ReleaseSnapshot
    \/ ReleaseInstall
    \/ ReleaseAdd
    \/ ReleaseClose
    \/ ReleaseWait
    \/ ReleaseClear

Spec == Init /\ [][Next]_vars

\* Every goroutine that can run does run: the Release call once made, and
\* each worker.  A worker waiting for input on an open connection may
\* wait for ever; on a closed connection its read fails.
Worker(c) ==
    \/ Start(c) \/ LoopClosed(c) \/ (PeekFail(c) /\ ~cnOpen[c])
    \/ PeekProtocol(c) \/ PeekCmd(c) \/ Unknown(c) \/ Found(c)
    \/ HandlerRegisters(c) \/ ServeUnary(c) \/ ServeStream(c)
    \/ Deregister(c) \/ CheckReleased(c) \/ Signal(c) \/ ClientRelease(c)

Releasing ==
    ReleaseInstall \/ ReleaseAdd \/ ReleaseClose \/ ReleaseWait \/ ReleaseClear

FairSpec ==
    /\ Spec
    /\ WF_vars(Releasing)
    /\ \A c \in Conns : WF_vars(Worker(c))

\* the threads that call Handle and HandleStream run too
Registering == Handle \/ HandleStream

LockFairSpec ==
    /\ Spec
    /\ WF_vars(Releasing)
    /\ WF_vars(Registering)
    /\ \A c \in Conns : WF_vars(Worker(c))

\* ------------------------------------------------------ properties
ExitPcs == {"dereg", "check", "signal", "release", "finished"}
InSnapshot(c) == \E i \in DOMAIN infos : infos[i].id = c
Returned == relPc = "idle" /\ nrel > 0
Replies(c) == out[c] \o wr[c]

\* C1: when Release has returned, none of the connections of its
\* snapshot is still registered.
ReleaseReturnsAfterSnapshotDeregistered ==
    Returned => \A c \in Conns : InSnapshot(c) => ~clients[c].present

\* C2: every call of Release eventually returns.  A run that a panic
\* ends is left aside: what is stated is that Release does not block
\* for ever.
ReleaseEventuallyReturns ==
    (relPc # "idle") ~> (relPc = "idle" \/ panicked # "none")

\* C3: a connection that is not in Release's snapshot is not closed by
\* Release, and its deregistration neither changes the barrier nor ends
\* the drain.
LateConnectionUnaffected ==
    [][\A c \in Conns :
          ~InSnapshot(c) =>
             /\ closed'[c] = closed[c]
             /\ (pc[c] = "signal" /\ pc'[c] # "signal") =>
                   (wg' = wg /\ panicked' = panicked)]_vars

\* C4: each session registers exactly once, and once its loop is left it
\* deregisters exactly once, whichever way the loop was left.
RegisterOnceDeregisterOnce ==
    \A c \in Conns :
       /\ pc[c] \in {"none", "start"} => nreg[c] = 0 /\ ndereg[c] = 0
       /\ pc[c] \in {"loop", "pipe", "locked", "handler", "hreg", "dereg"} =>
             nreg[c] = 1 /\ ndereg[c] = 0
       /\ pc[c] \in {"check", "signal", "release", "finished"} =>
             nreg[c] = 1 /\ ndereg[c] = 1

\* a session that left its loop because Release had set its closed flag
\* has deregistered once, as has another session
ForceClosedSessionDeregistered ==
    \E c \in Conns :
       /\ pc[c] = "release" /\ closed[c] /\ InSnapshot(c)
       /\ last[c].kind = "none"
       /\ nreg[c] = 1 /\ ndereg[c] = 1
       /\ \E d \in Conns \ {c} : pc[d] \in ExitPcs /\ ndereg[d] = 1

\* C5 as stated: a record is present exactly for the sessions that have
\* registered, have not deregistered, and whose connection is open.
InfoExactlyOpenRegistered ==
    \A c \in Conns :
       clients[c].present <=> (nreg[c] = 1 /\ ndereg[c] = 0 /\ cnOpen[c])

\* C5 as amended: a record is present exactly for the sessions that have
\* registered and not deregistered; its connection is open unless
\* Release has closed it and the session has not deregistered yet.
InfoExactlyRegistered ==
    \A c \in Conns :
       /\ clients[c].present <=> (nreg[c] = 1 /\ ndereg[c] = 0)
       /\ (clients[c].present /\ ~cnOpen[c]) => (closed[c] /\ InSnapshot(c))
       /\ (cnOpen[c] /\ ~clients[c].present) =>
             pc[c] \in {"start", "check", "signal", "release"}

\* Release has closed a connection whose record is still present
RecordOfForceClosedConnection ==
    \E c \in Conns : clients[c].present /\ ~cnOpen[c] /\ relPc \in {"add", "wait"}

Terminating(c) == pc[c] \in {"dereg", "check", "signal", "release"}
RepliesOf(c, k) == { i \in DOMAIN Replies(c) : Replies(c)[i].cmd = k }

OtherErrorContinues ==
    \A c \in Conns :
       last[c].err = "io" => (last[c].reply /\ ~Terminating(c))

\* C7 as amended: after an error that is no protocol error, the error
\* reply is written, the buffer is flushed once whatever the result,
\* and the session terminates.
OtherErrorTerminates ==
    \A c \in Conns :
       last[c].err = "io" =>
          /\ last[c].reply /\ last[c].flushes = 1
          /\ Terminating(c)

\* a session terminates after a failed eager flush in perform
TerminatingAfterFlushError ==
    \E c \in Conns : last[c].err = "io" /\ last[c].at = "flush" /\ Terminating(c)

\* C8 as stated: after a read that failed with an I/O error the session
\* terminates and neither an error reply nor a flush was attempted.
ReadFailureSilent ==
    \A c \in Conns :
       (last[c].err = "io" /\ last[c].at = "read") =>
          /\ Terminating(c)
          /\ ~last[c].reply /\ last[c].flushes = 0
          /\ \A i \in DOMAIN Replies(c) : Replies(c)[i].kind # "err"

\* C8 as amended: after a read that failed with an I/O error the session
\* terminates, but first the error reply is appended and one flush is
\* attempted: the reply is the last one delivered if the flush
\* succeeded and the last one buffered if not.
ReadFailureRepliesThenTerminates ==
    \A c \in Conns :
       (last[c].err = "io" /\ last[c].at = "read") =>
          /\ Terminating(c)
          /\ last[c].flushes = 1
          /\ IF last[c].fok
             THEN wr[c] = << >> /\ out[c] # << >>
                  /\ out[c][Len(out[c])].kind = "err"
             ELSE wr[c] # << >> /\ wr[c][Len(wr[c])].kind = "err"

\* the error reply of a failed read has reached the transport
ReadFailureReplyDelivered ==
    \E c \in Conns :
       /\ last[c].err = "io" /\ last[c].at = "read" /\ last[c].fok
       /\ Terminating(c)
       /\ out[c] # << >> /\ out[c][Len(out[c])].kind = "err"

\* C9: after the dispatch of a name without handler there is exactly one
\* reply for the command, the unknown-command error with the name as
\* sent; no error was reported, so the session goes on unless the
\* flush failed; the dispatch has not closed the connection; with the
\* transport serving the skip, nothing of the command is left in the
\* stream, and what is dispatched next is the next command sent, which,
\* if it has a handler and its reads are served, gets its reply.
UnknownCommandHandled ==
    \A c \in Conns :
       /\ last[c].kind = "unknown" =>
             /\ last[c].err = "none"
             /\ Cardinality(RepliesOf(c, last[c].k)) = 1
             /\ \A i \in RepliesOf(c, last[c].k) :
                   Replies(c)[i] = UnknownCommand(last[c].name, last[c].k)
             /\ (last[c].flushes = 0 \/ last[c].fok) <=> pc[c] \in {"loop", "pipe"}
             /\ cnOpen[c] \/ closed[c]
             /\ last[c].tok =>
                   \A i \in DOMAIN inbuf[c] : inbuf[c][i].k > last[c].k
       /\ (last[c].after # 0 /\ pc[c] \in {"locked", "handler"}) =>
             /\ Head(inbuf[c]).t = "hdr"
             /\ Head(inbuf[c]).k = last[c].after + 1
       /\ (last[c].after # 0 /\ last[c].kind = "peek" /\ last[c].err = "protocol") =>
             last[c].k = last[c].after + 1
       /\ (last[c].after # 0 /\ last[c].kind \in {"unary", "stream"}) =>
             /\ last[c].k = last[c].after + 1
             /\ last[c].err = "none" =>
                   \E i \in RepliesOf(c, last[c].k) : Replies(c)[i].kind = "ok"

\* a command with a handler has been served right after an unknown
\* command whose arguments were skipped
ServedAfterUnknownCommand ==
    \E c \in Conns :
       /\ last[c].after # 0 /\ last[c].an > 0
       /\ last[c].kind \in {"unary", "stream"} /\ last[c].err = "none"
       /\ cnOpen[c] /\ pc[c] \in {"loop", "pipe"}
       /\ \E i \in RepliesOf(c, last[c].after) : Replies(c)[i].kind = "unknown"

\* C10: on each connection the replies, delivered and buffered, are in
\* the order of the commands read; the reply to a failed read of a
\* command name, which belongs to no command, comes last.
RepliesInCommandOrder ==
    \A c \in Conns :
       \A i, j \in DOMAIN Replies(c) :
          i < j =>
             /\ Replies(c)[i].cmd # 0
             /\ Replies(c)[j].cmd # 0 => Replies(c)[i].cmd <= Replies(c)[j].cmd

\* replies of two pipelined commands, one unknown and one served with an
\* eager flush, have been delivered
PipelinedRepliesDelivered ==
    \E c \in Conns :
       /\ Len(out[c]) >= 2
       /\ out[c][1].cmd < out[c][2].cmd
       /\ {out[c][1].kind, out[c][2].kind} = {"unknown", "ok"}
       /\ last[c].eager

\* the registrations made under any case variant of name v
RegisteredAs(v) == { i \in DOMAIN regs : ToLower(regs[i].name) = ToLower(v) }
\* the handler of the latest of them
Latest(v) ==
    IF RegisteredAs(v) = {} THEN NoHandler
    ELSE LET i == CHOOSE m \in RegisteredAs(v) : \A n \in RegisteredAs(v) : n <= m
         IN [kind |-> regs[i].kind, id |-> i]

\* C11: after any sequence of registrations a lookup under any case
\* variant of a name yields the handler, unary or streaming, registered
\* last under any case variant of that name, and nothing for a name never
\* registered; the dispatch step goes on with exactly that handler, and
\* treats the command as unknown exactly when there is none.
RegistryIsCaseInsensitiveMap ==
    /\ [](\A v \in Variants : Lookup(v) = Latest(v))
    /\ [][\A c \in Conns :
            (pc[c] = "locked" /\ pc'[c] # "locked") =>
               IF Latest(Head(inbuf[c]).name) = NoHandler
               THEN pc'[c] # "handler" /\ last'[c].kind = "unknown"
               ELSE pc'[c] = "handler" /\ hnd'[c] = Latest(Head(inbuf[c]).name)]_vars

\* a command sent as "GET" is dispatched to the streaming handler
\* registered as "get", which replaced the unary one registered as "GET"
LookupFindsLaterCaseVariant ==
    /\ Len(regs) = 2
    /\ regs[1] = [name |-> "GET", kind |-> "unary"]
    /\ regs[2] = [name |-> "get", kind |-> "stream"]
    /\ Lookup("foo") = NoHandler
    /\ \E c \in Conns :
          /\ pc[c] = "handler" /\ Head(inbuf[c]).name = "GET"
          /\ hnd[c] = [kind |-> "stream", id |-> 2]

Dispatched == {"unknown", "unary", "stream"}
\* the session goes on after the dispatch: the pipeline turns to the next
\* command, which is being looked up or served, or has returned to the loop
GoingOn(c) == pc[c] \in {"pipe", "locked", "handler", "hreg", "loop"}

\* C12 as stated: while a command is dispatched, the writer does not hold
\* more than half the maximum buffer size from the replies to earlier
\* commands, whatever kind of command they were.
FlushBeforeNextDispatch ==
    \A c \in Conns :
       pc[c] \in {"locked", "handler"} => Buffered(wr[c]) <= MaxBufferSize \div 2

\* C12 as amended: after the dispatch of a command with a handler the
\* writer does not hold more than half the maximum buffer size when the
\* session goes on: a larger buffer has been flushed.  The dispatch of an
\* unknown command makes no flush; when the session goes on with more
\* than half the maximum buffered, what was written last is the reply to
\* an unknown command.
FlushAfterHandlerBeforeNextDispatch ==
    \A c \in Conns :
       /\ (GoingOn(c) /\ last[c].kind \in {"unary", "stream"}) =>
             /\ Buffered(wr[c]) <= MaxBufferSize \div 2
             /\ last[c].eager => (wr[c] = << >> /\ out[c] # << >>)
       /\ last[c].kind = "unknown" => ~last[c].eager
       /\ (GoingOn(c) /\ Buffered(wr[c]) > MaxBufferSize \div 2) =>
             wr[c][Len(wr[c])].kind = "unknown"

\* a handler's large reply has been flushed by the dispatch step and the
\* pipeline is about to turn to the next command
LargeReplyFlushedBeforeNext ==
    \E c \in Conns :
       /\ pc[c] = "pipe" /\ inbuf[c] # << >>
       /\ last[c].kind \in {"unary", "stream"} /\ last[c].eager
       /\ wr[c] = << >>
       /\ out[c] # << >> /\ out[c][Len(out[c])] = Reply(last[c].k, BigReply)

\* C13: after the dispatch of a command to a streaming handler, with the
\* transport serving the reads, nothing of the command is left in the
\* input, however many of its arguments the handler read: the input is
\* empty or starts with what the peer sent next.  What the session reads
\* next is then the name of the next command, and a protocol error only
\* if the peer sent a line that is no command.
StreamArgumentsDiscarded ==
    /\ [](\A c \in Conns :
            (last[c].kind = "stream" /\ last[c].tok) =>
               /\ \A i \in DOMAIN inbuf[c] : inbuf[c][i].k > last[c].k
               /\ inbuf[c] # << >> =>
                     /\ Head(inbuf[c]).t \in {"hdr", "bad"}
                     /\ Head(inbuf[c]).k = last[c].k + 1)
    /\ [][\A c \in Conns :
            (last[c].kind = "stream" /\ last[c].tok /\ pc[c] \in {"pipe", "loop"}) =>
               /\ pc'[c] = "locked" =>
                     /\ Head(inbuf[c]).t = "hdr"
                     /\ Head(inbuf[c]).k = last[c].k + 1
               /\ (last'[c].kind = "peek" /\ last'[c].err = "protocol") =>
                     Head(inbuf[c]) = Bad(last[c].k + 1)]_vars

\* a streaming handler returned without reading an argument, and the
\* pipeline is about to read the next command
NextCommandAfterUnreadArguments ==
    \E c \in Conns :
       /\ pc[c] = "pipe"
       /\ last[c].kind = "stream" /\ last[c].tok /\ last[c].err = "none"
       /\ last[c].n > 0 /\ last[c].left = last[c].n
       /\ inbuf[c] # << >>
       /\ Head(inbuf[c]).t = "hdr" /\ Head(inbuf[c]).k = last[c].k + 1

\* C14: a worker that has finished, whichever way it left the loop, has
\* closed its connection; before the worker's release only Release
\* closes a connection, and then it has set the closed flag.
FinishedWorkerClosedConnection ==
    \A c \in Conns :
       /\ pc[c] = "finished" => ~cnOpen[c]
       /\ (pc[c] \notin {"none", "finished"} /\ ~cnOpen[c]) => closed[c]

\* one worker has finished after Release closed its connection, another
\* after it left the loop of its own accord; both connections are closed
WorkersFinishedBothWays ==
    \E c, d \in Conns :
       /\ pc[c] = "finished" /\ closed[c] /\ ~cnOpen[c]
       /\ pc[d] = "finished" /\ ~closed[d] /\ ~cnOpen[d]

\* C15: a dispatch in which the transport failed a read of the command's
\* arguments, a skip of them or a discard of them, has returned an
\* error to the pipeline loop.
ArgumentFailuresReturned ==
    \A c \in Conns :
       (last[c].kind \in Dispatched /\ ~last[c].tok) => last[c].err # "none"

\* C16: when the flush that ends a pipeline iteration has failed, the
\* session is on its way out, and a session on its way out stays so: it
\* makes no further iteration, consumes no input, writes nothing, and
\* its next step from the loop's exit is the deregistration.
FlushFailureTerminates ==
    /\ [](\A c \in Conns :
            (last[c].flushes = 1 /\ ~last[c].fok) => Terminating(c))
    /\ [][\A c \in Conns :
            pc[c] \in ExitPcs =>
               /\ pc'[c] \in ExitPcs
               /\ pc'[c] # "finished" =>
                     /\ Len(inbuf'[c]) >= Len(inbuf[c])
                     /\ wr'[c] = wr[c] /\ out'[c] = out[c]
               /\ (pc[c] = "dereg" /\ pc'[c] # "dereg") =>
                     /\ pc'[c] = "check"
                     /\ ndereg'[c] = ndereg[c] + 1
                     /\ ~clients'[c].present]_vars

\* a session whose dispatch returned no error has deregistered after the
\* flush at the end of the iteration failed on its open connection
DeregisteredAfterFlushFailure ==
    \E c \in Conns :
       /\ last[c].kind \in Dispatched /\ last[c].err = "none"
       /\ last[c].flushes = 1 /\ ~last[c].fok
       /\ wr[c] # << >> /\ cnOpen[c]
       /\ pc[c] = "check" /\ ndereg[c] = 1 /\ ~clients[c].present

\* C17: while a handler is about to run or running, the session's record
\* has the lower-cased name of its command as last-seen command.  The
\* step of the dispatch that finds a handler counts one invocation of
\* that name and sets the last-seen command; nothing else in the loop changes the
\* record: not the dispatch of an unknown command, not the handler, not
\* a failed read of the arguments.
InvocationRecordedOnce ==
    /\ [](\A c \in Conns :
            pc[c] = "handler" =>
               /\ clients[c].present
               /\ clients[c].calls[ToLower(Head(inbuf[c]).name)] >= 1
               /\ clients[c].cmd = ToLower(Head(inbuf[c]).name))
    /\ [][\A c \in Conns :
            /\ (pc[c] = "locked" /\ pc'[c] = "handler") =>
                  clients'[c] = [present |-> TRUE,
                                 cmd |-> ToLower(Head(inbuf[c]).name),
                                 calls |-> [clients[c].calls EXCEPT
                                              ![ToLower(Head(inbuf[c]).name)] = @ + 1]]
            /\ (pc[c] = "locked" /\ pc'[c] # "handler") => clients'[c] = clients[c]
            /\ pc[c] \in {"loop", "pipe", "handler", "hreg"} =>
                  clients'[c] = clients[c]]_vars

\* the command "GET" has been recorded once, as "get", although the read
\* of its arguments then failed
RecordedBeforeFailedRead ==
    \E c \in Conns :
       /\ last[c].kind \in {"unary", "stream"} /\ last[c].name = "GET"
       /\ last[c].err = "io" /\ last[c].at = "read" /\ ~last[c].tok
       /\ clients[c] = [present |-> TRUE, cmd |-> "get",
                        calls |-> [NoCalls EXCEPT !["get"] = 1]]

\* C18: no deregistration signals the barrier more often than Release
\* has incremented it: the counter never goes below zero.
BarrierCounterNeverNegative ==
    panicked # "negative"

\* C19: no deregistration that found the barrier installed signals it
\* after Release has cleared it.
SignalledBarrierNeverNil ==
    panicked # "nil"

\* C20: the read lock is held by the sessions that are in the lookup and
\* by no other, so not by a session whose handler runs; and every
\* registration that is to be made is made, the handlers' calls of Handle
\* and HandleStream (each of them counts as one still to be made while
\* it waits for the lock) as well as the calls from other threads,
\* whatever the sessions do.  A run that a panic ends is left aside.
RegistrationNeverBlocked ==
    /\ [](mu = Cardinality({ c \in Conns : pc[c] = "locked" }))
    /\ [](nregs + Pending <= load.regs)
    /\ (nregs < load.regs) ~> (nregs = load.regs \/ ~Running)

\* a handler that is serving a command has called Handle or HandleStream,
\* and nothing holds the lock its call asks for
HandlerCallFindsLockFree ==
    \E c \in Conns :
       /\ pc[c] = "hreg" /\ hnd[c] # NoHandler /\ mu = 0
       /\ Running /\ nregs < load.regs
====
